---- MODULE Spec2Model ----
(***************************************************************************)
(* State-machine model of the non-integer sample-rate converter:           *)
(*   NonIntegerResampler  (facade: Reset / SetResamplingMode /             *)
(*                         ProcessBlock, LinearInterpolate,                *)
(*                         CubicInterpolate)                               *)
(*   LanczosResampler     (streaming windowed-sinc engine)                 *)
(*                                                                         *)
(* Arithmetic is exact: sample rates are small positive integers, ratios   *)
(* are rationals <<num, den>>, and an engine's phaseI / phaseO are stored  *)
(* as integer multiples of 1/sro (so dPhaseI = sro and dPhaseO = sri in    *)
(* the stored unit).                                                       *)
(***************************************************************************)
EXTENDS Integers, Sequences, FiniteSets, TLC

(***************************************************************************)
(* Program constants (LanczosResampler)                                    *)
(***************************************************************************)
A == 4
BUFFER_SZ == 4096
filterWidth == A * 2
tableObs == 8192

(***************************************************************************)
(* Bounds of the model                                                     *)
(***************************************************************************)
\* frames per channel of the scratch buffer
DEFAULT_BLOCK_SIZE == 3
\* largest nFrames the host passes to ProcessBlock
MaxFrames == 3
\* largest host sample rate handed to Reset (in model rate units)
MaxRate == 3
\* ProcessBlock calls explored in one run of the facade
MaxBlocks == 2
\* value at which the count of transform invocations saturates
MaxFuncCalls == 2
\* calls made on an engine that is driven directly
MaxCalls == 2
\* largest output count asked of an engine that is driven directly
MaxOutputs == 2
\* threads that construct engines at the same time
MaxThreads == 2
\* engines one thread constructs
MaxCtors == 2

kLinearInterpolation == "kLinearInterpolation"
kCubicInterpolation == "kCubicInterpolation"
kLancsoz == "kLancsoz"
ESRCMode == {kLinearInterpolation, kCubicInterpolation, kLancsoz}

InputRates == 1..MaxRate
RenderRates == {2}
Chans == {0, 1}

(***************************************************************************)
(* Sample values.  A value is <<kind, n, d, taps>>:                        *)
(*   "num"    the finite number n/d (d > 0, lowest terms)                  *)
(*   "nan"    a non-finite float (NaN or +-Inf)                            *)
(*   "stale"  content of a host output slot from before the call           *)
(*   "uninit" memory never written since allocation; n is the slot, each   *)
(*            slot holding an indeterminate value of its own                *)
(*   "dot"    kernel-weighted sum produced by LanczosResampler::read:      *)
(*            table row n, sub-row fraction d/sro, the 8 history taps      *)
(*   "gain"   the transform's gain n/d applied to the non-numeric taps[1]  *)
(***************************************************************************)
RECURSIVE GCD(_, _)
GCD(a, b) == IF b = 0 THEN a ELSE GCD(b, a % b)

Abs(x) == IF x < 0 THEN -x ELSE x

Num(n, d) ==
  LET g == GCD(Abs(n), Abs(d))
      s == IF d < 0 THEN -1 ELSE 1
  IN  <<"num", (s * n) \div g, (s * d) \div g, <<>>>>

Zero == Num(0, 1)
NaN == <<"nan", 0, 1, <<>>>>
Stale == <<"stale", 0, 1, <<>>>>
Uninit(i) == <<"uninit", i, 1, <<>>>>

IsNum(v) == v[1] = "num"

\* float arithmetic on finite numbers is exact here; a non-finite operand
\* makes the result non-finite (0 * NaN = NaN, 0 * Inf = NaN)
FAdd(x, y) == IF IsNum(x) /\ IsNum(y) THEN Num(x[2] * y[3] + y[2] * x[3], x[3] * y[3]) ELSE NaN
FSub(x, y) == IF IsNum(x) /\ IsNum(y) THEN Num(x[2] * y[3] - y[2] * x[3], x[3] * y[3]) ELSE NaN
FMul(x, y) == IF IsNum(x) /\ IsNum(y) THEN Num(x[2] * y[2], x[3] * y[3]) ELSE NaN

\* values an out-of-bounds read can return
Garbage == {Num(7, 1), NaN}

(***************************************************************************)
(* Ratios (double): <<n, d>> in lowest terms; d = 0 is Inf (n = 1) or      *)
(* NaN (n = 0), the results of x / 0.0 and 0.0 / 0.0.                      *)
(***************************************************************************)
Ratio(a, b) ==
  IF b = 0 THEN <<IF a = 0 THEN 0 ELSE 1, 0>>
  ELSE LET g == GCD(Abs(a), Abs(b)) IN <<a \div g, b \div g>>

\* static_cast<int>(std::ceil(static_cast<double>(len) / ratio)), ratio > 0
CeilDiv(len, ratio) == -((-(len * ratio[2])) \div ratio[1])

Min(a, b) == IF a < b THEN a ELSE b
Max(a, b) == IF a > b THEN a ELSE b

(***************************************************************************)
(* Two's-complement x & mask of an int, 0 <= mask < 2^30: the low 30 bits  *)
(* of x are x mod 2^30, also for negative x                                *)
(***************************************************************************)
RECURSIVE BitAnd(_, _)
BitAnd(x, m) ==
  IF x = 0 \/ m = 0 THEN 0
  ELSE (x % 2) * (m % 2) + 2 * BitAnd(x \div 2, m \div 2)

IntAnd(x, m) == BitAnd(x % 1073741824, m)

(***************************************************************************)
(* LanczosResampler                                                        *)
(***************************************************************************)
\* content of input[ch][i] as the constructor leaves it:
\* memset(input, 0, 2 * BUFFER_SZ * sizeof(float)) clears the first
\* 2 * BUFFER_SZ floats of float input[2][BUFFER_SZ * 2]
CtorSlot(ch, i) ==
  IF ch * (2 * BUFFER_SZ) + i < 2 * BUFFER_SZ THEN Zero ELSE Uninit(i)

\* the engine's history: input[ch] lists the slots written by push, every
\* other slot holds CtorSlot
Slot(e, ch, i) ==
  IF i \in DOMAIN e.input[ch] THEN e.input[ch][i] ELSE CtorSlot(ch, i)

Put(f, i, v) == (i :> v) @@ f

NoSlots == [i \in {} |-> Zero]

LanczosResampler(inputRate, outputRate) ==
  [sri |-> inputRate, sro |-> outputRate, wp |-> 0,
   phaseI |-> 0, phaseO |-> 0,
   input |-> [ch \in Chans |-> NoSlots]]

push(e, fL, fR) ==
  [e EXCEPT !.input = [ch \in Chans |->
                         LET v == IF ch = 0 THEN fL ELSE fR
                         IN  Put(Put(e.input[ch], e.wp, v), e.wp + BUFFER_SZ, v)],
            !.wp = IntAnd(e.wp + 1, BUFFER_SZ - 1),
            !.phaseI = e.phaseI + e.sro]

\* idx0 without idx0 += (idx0 <= (int)A) * BUFFER_SZ
ReadIdx0Unshifted(e) ==
  LET p0 == e.wp * e.sro - (e.phaseI - e.phaseO)
  IN  IntAnd((p0 \div e.sro) + BUFFER_SZ, BUFFER_SZ - 1)

\* first history index of the W-tap window read for xBack = phaseI - phaseO
ReadIdx0(e) ==
  LET p0 == e.wp * e.sro - (e.phaseI - e.phaseO)
      i0 == IntAnd((p0 \div e.sro) + BUFFER_SZ, BUFFER_SZ - 1)
  IN  i0 + (IF i0 <= A THEN BUFFER_SZ ELSE 0)

\* off0 * sro, off0 = 1.0 - (p0 - floor(p0))
ReadOff0(e) ==
  LET p0 == e.wp * e.sro - (e.phaseI - e.phaseO)
  IN  e.sro - (p0 % e.sro)

\* tidx = (int)(off0 * tableObs)
ReadTidx(e) == (ReadOff0(e) * tableObs) \div e.sro

\* one channel of read(): the table row, the sub-row fraction and the taps
\* input[ch][idx0 - A .. idx0 + A - 1]; a window of zeros sums to zero
read(e, ch) ==
  LET idx0 == ReadIdx0(e)
      taps == [k \in 1..filterWidth |-> Slot(e, ch, idx0 - A + k - 1)]
  IN  IF \A k \in 1..filterWidth : taps[k] = Zero THEN Zero
      ELSE <<"dot", ReadTidx(e), (ReadOff0(e) * tableObs) % e.sro, taps>>

\* the count taken without the outputs asked for
inputsRequiredIgnoringOutputs(e, desiredOutputs) ==
  LET res == (A + 1) * e.sro - (e.phaseI - e.phaseO)
  IN  IF res + e.sro <= 0 THEN 0 ELSE (res + e.sro) \div e.sro

\* (size_t) std::max(res + 1, 0.0),
\* res = A + 1 - (phaseI - phaseO - dPhaseO * desiredOutputs)
inputsRequiredToGenerateOutputs(e, desiredOutputs) ==
  LET res == (A + 1) * e.sro - (e.phaseI - e.phaseO - e.sri * desiredOutputs)
  IN  IF res + e.sro <= 0 THEN 0 ELSE (res + e.sro) \div e.sro

\* populateNext: [eng, fL, fR, populated]; fL / fR are the samples stored
\* to fL[0..populated-1] and fR[0..populated-1], in order
RECURSIVE populateLoop(_, _, _, _)
populateLoop(e, fL, fR, max) ==
  IF Len(fL) < max /\ (e.phaseI - e.phaseO) > (A + 1) * e.sro
  THEN populateLoop([e EXCEPT !.phaseO = e.phaseO + e.sri],
                    Append(fL, read(e, 0)), Append(fR, read(e, 1)), max)
  ELSE [eng |-> e, fL |-> fL, fR |-> fR, populated |-> Len(fL)]

\* the loop bound tested with <= instead of <
populateNextOneMore(e, max) == populateLoop(e, <<>>, <<>>, max + 1)

populateNext(e, max) == populateLoop(e, <<>>, <<>>, max)

\* phaseO cleared without taking it off phaseI
renormalizePhasesKeepingPhaseI(e) == [e EXCEPT !.phaseO = 0]

renormalizePhases(e) ==
  [e EXCEPT !.phaseI = e.phaseI - e.phaseO, !.phaseO = 0]

\* n consecutive push(fL, fR) calls, as the first half of them followed by
\* the rest; wp is never negative: the test has e evaluated before the
\* pushes that follow it
RECURSIVE pushN(_, _, _, _)
pushN(e, fL, fR, n) ==
  IF n = 0 \/ e.wp < 0 THEN e
  ELSE IF n = 1 THEN push(e, fL, fR)
  ELSE pushN(pushN(e, fL, fR, n \div 2), fL, fR, n - (n \div 2))

(***************************************************************************)
(* Block interpolators.  inputs[ch] is the caller's memory at indices      *)
(* -1 .. inputLen-1 (index -1 is what lies before the block).  The result  *)
(* is the returned outputLen, the samples stored (outputs[ch][writePos],   *)
(* only for the writePos the loop assigns) and the set of indices at       *)
(* which inputs[chan][.] was read.                                         *)
(***************************************************************************)
InterpOutputLen(inputLen, ratio, maxOutputLen) ==
  Min(CeilDiv(inputLen, ratio), maxOutputLen)

\* readPosInt = (int) floor(ratio * writePos)
ReadPosInt(ratio, writePos) == (ratio[1] * writePos) \div ratio[2]

\* y = readPos - floor(readPos)
ReadFrac(ratio, writePos) == Num((ratio[1] * writePos) % ratio[2], ratio[2])

Half == Num(1, 2)
One == Num(1, 1)

\* index of the x1 tap of both interpolators and of the x2 tap of Cubic
TapX1(readPosInt, inputLen) ==
  IF readPosInt + 1 < inputLen THEN readPosInt + 1 ELSE readPosInt - 1

TapX2(readPosInt, inputLen) ==
  IF readPosInt + 2 < inputLen THEN readPosInt + 2 ELSE readPosInt - 1

\* the xm1 tap of Cubic reads inputs only when (readPosInt - 1) > 0
CubicLeftReads(readPosInt) == (readPosInt - 1) > 0

\* write positions the loop assigns
Assigned(inputLen, ratio, maxOutputLen) ==
  {w \in 0..(InterpOutputLen(inputLen, ratio, maxOutputLen) - 1) :
     ReadPosInt(ratio, w) < inputLen}

\* (1.0 - y) * x0 + y * x1
LinearMix(y, x0, x1) == FAdd(FMul(FSub(One, y), x0), FMul(y, x1))

LinearTaps(in, inputLen, y, i) == LinearMix(y, in[i], in[TapX1(i, inputLen)])

LinearSample(in, inputLen, ratio, w) ==
  LinearTaps(in, inputLen, ReadFrac(ratio, w), ReadPosInt(ratio, w))

\* the loop body over the write positions ws it assigns
LinearLoop(inputs, inputLen, ratio, ws) ==
  [outputs |-> [chan \in Chans |->
                  [w \in ws |-> LinearSample(inputs[chan], inputLen, ratio, w)]],
   reads |-> UNION {{ReadPosInt(ratio, w), TapX1(ReadPosInt(ratio, w), inputLen)} :
                      w \in ws}]

LinearInterpolate(inputs, inputLen, ratio, maxOutputLen) ==
  [outputLen |-> InterpOutputLen(inputLen, ratio, maxOutputLen)] @@
  LinearLoop(inputs, inputLen, ratio, Assigned(inputLen, ratio, maxOutputLen))

\* the Hermite polynomial of CubicInterpolate on evaluated taps
CubicPoly(y, xm1, x0, x1, x2) ==
  LET c == FMul(FSub(x1, xm1), Half)
      v == FSub(x0, x1)
      w == FAdd(c, v)
      a == FAdd(FAdd(w, v), FMul(FSub(x2, x0), Half))
      b == FAdd(w, a)
  IN  FAdd(FMul(FAdd(FMul(FSub(FMul(a, y), b), y), c), y), x0)

CubicTaps(in, inputLen, y, i) ==
  CubicPoly(y,
            IF CubicLeftReads(i) THEN in[i - 1] ELSE Zero,
            IF i < inputLen THEN in[i] ELSE in[i - 1],
            in[TapX1(i, inputLen)],
            in[TapX2(i, inputLen)])

CubicSample(in, inputLen, ratio, w) ==
  CubicTaps(in, inputLen, ReadFrac(ratio, w), ReadPosInt(ratio, w))

CubicLoop(inputs, inputLen, ratio, ws) ==
  [outputs |-> [chan \in Chans |->
                  [w \in ws |-> CubicSample(inputs[chan], inputLen, ratio, w)]],
   reads |-> UNION {{ReadPosInt(ratio, w),
                     TapX1(ReadPosInt(ratio, w), inputLen),
                     TapX2(ReadPosInt(ratio, w), inputLen)}
                    \cup (IF CubicLeftReads(ReadPosInt(ratio, w))
                          THEN {ReadPosInt(ratio, w) - 1} ELSE {}) :
                      w \in ws}]

CubicInterpolate(inputs, inputLen, ratio, maxOutputLen) ==
  [outputLen |-> InterpOutputLen(inputLen, ratio, maxOutputLen)] @@
  CubicLoop(inputs, inputLen, ratio, Assigned(inputLen, ratio, maxOutputLen))

(***************************************************************************)
(* NonIntegerResampler: state                                              *)
(***************************************************************************)
VARIABLES
  mResamplingMode,        \* ESRCMode
  mRenderingSampleRate,   \* const double, set by the constructor
  mInputSampleRate,       \* double, 0.0 until Reset
  mUpRatio, mDownRatio,   \* double, <<0, 1>> (0.0) until Reset
  mResampledData,         \* WDL_TypedBuf<T>: flat buffer, index 0..size-1
  mScratchPtrs,           \* offsets of the channel pointers in mResampledData
  mResamplerUp,           \* unique_ptr: <<>> or <<engine>>
  mResamplerDown,
  mPushedCountUp, mPushedCountDown,
  pc,                     \* "idle": no ProcessBlock since construction / Reset;
                          \* "loop": inside ProcessBlock (kLancsoz case);
                          \* "returned": the latest ProcessBlock has returned
  func,                   \* the transform the embedding plugin passes
  nFrames,                \* arguments of the current / latest ProcessBlock
  inputs,                 \*   inputs[ch][0..nFrames-1]
  outputs,                \* host output block of the current / latest call
  outputLen,              \* local of the kLancsoz case
  stray,                  \* what a load outside the buffers yields in this call
  funcCalls,              \* invocations of func in the current / latest call
  funcLen,                \* frame count handed to func last (-1: none)
  scratchHigh,            \* highest scratch index stored per channel (-1: none)
  oobRead,                \* an interpolator read outside 0..inputLen-1
  blocks,                 \* ProcessBlock calls completed so far
  lastOp                  \* the facade operation called last

\* a LanczosResampler driven directly, as the facade drives its two engines
VARIABLES
  eng,                    \* <<>> or <<engine>>: renormalized after every block
  ref,                    \* <<>> or <<engine>>: same calls, never renormalized
  pushed,                 \* push calls on eng since its construction
  op                      \* the call made last on eng and what it returned

facade == <<mResamplingMode, mRenderingSampleRate, mInputSampleRate,
            mUpRatio, mDownRatio, mResampledData, mScratchPtrs,
            mResamplerUp, mResamplerDown, mPushedCountUp, mPushedCountDown>>
frame == <<pc, nFrames, inputs, outputs, outputLen, stray,
           funcCalls, funcLen, scratchHigh, oobRead>>
host == <<func>>
standalone == <<eng, ref, pushed, op>>

\* static members of LanczosResampler and the constructors that use them
VARIABLES
  tablesInitialized,      \* static bool
  tableBuilds,            \* constructions that have written lanczosTable
  lateWrite,              \* a table was written while tablesInitialized was true
  ctorPc                  \* per thread: constructions begun, position in the latest

statics == <<tablesInitialized, tableBuilds, lateWrite, ctorPc>>
vars == <<facade, frame, host, blocks, lastOp, standalone, statics>>

Transforms == {"identity", "gain"}

\* the transform of IPlugSRC::ProcessBlock on one sample, gain = 1/2;
\* "identity" leaves the sample as it is
ApplyFunc(f, v) ==
  IF f = "identity" THEN v
  ELSE IF v[1] \in {"num", "nan"} THEN FMul(v, Half)
  ELSE <<"gain", 1, 2, <<v>>>>

\* host input block: a ramp that differs per channel
HostSample(ch, i) == Num(1 + i + 2 * ch, 1)
HostBlock(n) == [ch \in Chans |-> [i \in 0..(n - 1) |-> HostSample(ch, i)]]

\* a block as the interpolators address it: index -1 lies before the block
WithBefore(blk, n, g) ==
  [ch \in Chans |-> [i \in (-1)..(n - 1) |-> IF i = -1 THEN g ELSE blk[ch][i]]]

(***************************************************************************)
(* Scratch buffer: mScratchPtrs[ch + 1] + i indexes mResampledData         *)
(***************************************************************************)
ScratchSize == DEFAULT_BLOCK_SIZE * 2

InScratch(ch, i) ==
  LET j == mScratchPtrs[ch + 1] + i IN j >= 0 /\ j < ScratchSize

\* a load outside the allocation yields g
ScratchLoad(data, ch, i, g) ==
  IF InScratch(ch, i) THEN data[mScratchPtrs[ch + 1] + i] ELSE g

\* a store outside the allocation does not change the buffer
ScratchStore(data, ch, i, v) ==
  IF InScratch(ch, i) THEN [data EXCEPT ![mScratchPtrs[ch + 1] + i] = v] ELSE data

ScratchBlock(data, n, g) ==
  [ch \in Chans |-> [i \in (-1)..(n - 1) |-> ScratchLoad(data, ch, i, g)]]

\* stores outputs[chan][w] of an interpolator result into the scratch
StoreInterp(data, res) ==
  [j \in DOMAIN data |->
     LET ch == IF j < mScratchPtrs[2] THEN 0 ELSE 1
         w == j - mScratchPtrs[ch + 1]
     IN  IF w \in DOMAIN res.outputs[ch] THEN res.outputs[ch][w] ELSE data[j]]

\* func(scratch, scratch, m): sample s of channel 0, then of channel 1
RECURSIVE RunFunc(_, _, _, _, _)
RunFunc(data, f, s, m, g) ==
  IF s >= m THEN data
  ELSE LET d0 == ScratchStore(data, 0, s, ApplyFunc(f, ScratchLoad(data, 0, s, g)))
           d1 == ScratchStore(d0, 1, s, ApplyFunc(f, ScratchLoad(d0, 1, s, g)))
       IN  RunFunc(d1, f, s + 1, m, g)

\* host output block after a conversion stored the samples in written[ch]
HostOut(written, n) ==
  [ch \in Chans |-> [k \in 0..(n - 1) |->
     IF k \in DOMAIN written[ch] THEN written[ch][k] ELSE Stale]]

SetMax(S) == IF S = {} THEN -1 ELSE CHOOSE x \in S : \A y \in S : y <= x

(***************************************************************************)
(* NonIntegerResampler: constructor, Reset, SetResamplingMode              *)
(***************************************************************************)
Constructed ==
  /\ mResamplingMode \in ESRCMode
  /\ mRenderingSampleRate \in RenderRates
  /\ mInputSampleRate = 0
  /\ mUpRatio = <<0, 1>>
  /\ mDownRatio = <<0, 1>>
  /\ mResampledData = <<>>
  /\ mScratchPtrs = <<>>
  /\ mResamplerUp = <<>>
  /\ mResamplerDown = <<>>
  /\ mPushedCountUp = 0
  /\ mPushedCountDown = 0
  /\ pc = "idle"
  /\ nFrames = 0
  /\ inputs = HostBlock(0)
  /\ func \in Transforms
  /\ outputs = HostOut(HostBlock(0), 0)
  /\ outputLen = 0
  /\ stray = Zero
  /\ funcCalls = 0
  /\ funcLen = -1
  /\ scratchHigh = -1
  /\ oobRead = FALSE
  /\ blocks = 0
  /\ lastOp = "NonIntegerResampler"

\* no engine exists outside the facade
NoStandalone ==
  /\ eng = <<>>
  /\ ref = <<>>
  /\ pushed = 0
  /\ op = [name |-> "none", calls |-> 0]

\* threads that construct engines
Threads == 1..MaxThreads

\* bool LanczosResampler::tablesInitialized{false}; no constructor running
ProcessStart ==
  /\ tablesInitialized = FALSE
  /\ tableBuilds = 0
  /\ lateWrite = FALSE
  /\ ctorPc = [t \in Threads |-> [k |-> 0, at |-> "none"]]

\* constructors run to completion on the calling thread, no other
\* constructor running: the first one builds the tables and sets the flag
ConstructEngines ==
  /\ tablesInitialized' = TRUE
  /\ tableBuilds' = IF tablesInitialized THEN tableBuilds ELSE tableBuilds + 1
  /\ UNCHANGED <<lateWrite, ctorPc>>

Init == Constructed /\ NoStandalone /\ ProcessStart

\* mUpRatio = mInputSampleRate / mRenderingSampleRate
UpRatioOf(inputSampleRate, renderingSampleRate) ==
  Ratio(inputSampleRate, renderingSampleRate)

\* the quotient taken the wrong way round
DownRatioOfSwapped(inputSampleRate, renderingSampleRate) ==
  Ratio(inputSampleRate, renderingSampleRate)

\* mDownRatio = mRenderingSampleRate / mInputSampleRate
DownRatioOf(inputSampleRate, renderingSampleRate) ==
  Ratio(renderingSampleRate, inputSampleRate)

\* Resize without the memset: the old content stays
ClearedDataNoMemset(data) ==
  [j \in 0..(ScratchSize - 1) |-> IF j \in DOMAIN data THEN data[j] ELSE Zero]

\* mResampledData.Resize(DEFAULT_BLOCK_SIZE * 2); memset(..., 0, ...)
ClearedData(data) == [j \in 0..(ScratchSize - 1) |-> Zero]

\* the priming loop left out
PrepopulateSkipped(e) == e

\* "Prepopulate the upsampler with silence so it can run ahead"
Prepopulate(e) ==
  pushN(e, Zero, Zero, inputsRequiredToGenerateOutputs(e, 1) * 2)

\* the facade is called from one thread, so not inside ProcessBlock; a run
\* is explored until its MaxBlocks-th ProcessBlock has returned
CanCall == pc # "loop" /\ blocks < MaxBlocks

\* no ProcessBlock call is in progress or was observed since the facade was
\* reconfigured: the frame variables return to their initial values
ForgetFrame ==
  /\ pc' = "idle"
  /\ nFrames' = 0
  /\ inputs' = HostBlock(0)
  /\ outputs' = HostOut(HostBlock(0), 0)
  /\ outputLen' = 0
  /\ stray' = Zero
  /\ funcCalls' = 0
  /\ funcLen' = -1
  /\ scratchHigh' = -1
  /\ oobRead' = FALSE

\* body of Reset(inputSampleRate) when mResamplingMode is mode
ResetTo(mode, inputSampleRate) ==
  /\ mInputSampleRate' = inputSampleRate
  /\ mUpRatio' = UpRatioOf(inputSampleRate, mRenderingSampleRate)
  /\ mDownRatio' = DownRatioOf(inputSampleRate, mRenderingSampleRate)
  /\ mResampledData' = ClearedData(mResampledData)
  /\ mScratchPtrs' = <<0, DEFAULT_BLOCK_SIZE>>
  /\ IF mode = kLancsoz
     THEN /\ mResamplerUp' =
               <<Prepopulate(LanczosResampler(inputSampleRate, mRenderingSampleRate))>>
          /\ mResamplerDown' =
               <<LanczosResampler(mRenderingSampleRate, inputSampleRate)>>
          /\ mPushedCountUp' = 0
          /\ mPushedCountDown' = 0
          /\ ConstructEngines
     ELSE UNCHANGED <<mResamplerUp, mResamplerDown, mPushedCountUp, mPushedCountDown,
                      statics>>
  /\ ForgetFrame
  /\ UNCHANGED <<mRenderingSampleRate, host, blocks, standalone>>

Reset(inputSampleRate) ==
  /\ CanCall
  /\ mResamplingMode' = mResamplingMode
  /\ ResetTo(mResamplingMode, inputSampleRate)
  /\ lastOp' = "Reset"

\* the mode stored without the Reset(mInputSampleRate) that follows it
SetResamplingModeWithoutReset(mode) ==
  /\ CanCall
  /\ mResamplingMode' = mode
  /\ lastOp' = "SetResamplingMode"
  /\ UNCHANGED <<mRenderingSampleRate, mInputSampleRate, mUpRatio, mDownRatio,
                 mResampledData, mScratchPtrs, mResamplerUp, mResamplerDown,
                 mPushedCountUp, mPushedCountDown, frame, host, blocks,
                 standalone, statics>>

SetResamplingMode(mode) ==
  /\ CanCall
  /\ mResamplingMode' = mode
  /\ ResetTo(mode, mInputSampleRate)
  /\ lastOp' = "SetResamplingMode"

(***************************************************************************)
(* ProcessBlock, kLinearInterpolation and kCubicInterpolation cases        *)
(***************************************************************************)
Interpolate(mode, in, inputLen, ratio, maxOutputLen) ==
  IF mode = kLinearInterpolation
  THEN LinearInterpolate(in, inputLen, ratio, maxOutputLen)
  ELSE CubicInterpolate(in, inputLen, ratio, maxOutputLen)

\* Reset has to precede ProcessBlock
CanProcess == CanCall /\ mInputSampleRate > 0

\* the three stages of the case: up-conversion into the scratch, the
\* transform on nNewFrames frames, down-conversion into the host's outputs
ProcessBlockInterp(mode, n, g) ==
  /\ CanProcess
  /\ mResamplingMode = mode
  /\ \E up \in {Interpolate(mode, WithBefore(HostBlock(n), n, g),
                            n, mUpRatio, DEFAULT_BLOCK_SIZE)} :
     \E data2 \in {RunFunc(StoreInterp(mResampledData, up), func, 0, up.outputLen, g)} :
     \E down \in {Interpolate(mode, ScratchBlock(data2, up.outputLen, g),
                              up.outputLen, mDownRatio, n)} :
       /\ mResampledData' = data2
       /\ outputs' = HostOut(down.outputs, n)
       /\ funcLen' = up.outputLen
       /\ scratchHigh' = SetMax(DOMAIN up.outputs[0])
       /\ oobRead' = \/ \E i \in up.reads : i < 0 \/ i >= n
                     \/ \E i \in down.reads : i < 0 \/ i >= up.outputLen
  /\ pc' = "returned"
  /\ nFrames' = n
  /\ inputs' = HostBlock(n)
  /\ funcCalls' = 1
  /\ stray' = g
  /\ blocks' = blocks + 1
  /\ lastOp' = "ProcessBlock"
  /\ UNCHANGED <<mResamplingMode, mRenderingSampleRate, mInputSampleRate,
                 mUpRatio, mDownRatio, mScratchPtrs, mResamplerUp,
                 mResamplerDown, mPushedCountUp, mPushedCountDown,
                 outputLen, host, standalone,
                 statics>>

ProcessBlockLinear(n, g) == ProcessBlockInterp(kLinearInterpolation, n, g)

ProcessBlockCubic(n, g) == ProcessBlockInterp(kCubicInterpolation, n, g)

(***************************************************************************)
(* ProcessBlock, kLancsoz case.  The while loop is taken one iteration     *)
(* per step: pc = "loop" from the end of the push loop until the loop      *)
(* condition fails.                                                        *)
(***************************************************************************)
\* push(blk[0][i], blk[1][i]) for i = from .. n-1
RECURSIVE pushBlock(_, _, _, _)
pushBlock(e, blk, from, n) ==
  IF from >= n THEN e
  ELSE pushBlock(push(e, blk[0][from], blk[1][from]), blk, from + 1, n)

\* the stores fL[p] = L, fR[p] = R of populateNext, p = 0, 1, ...
RECURSIVE StorePopulated(_, _, _, _)
StorePopulated(data, fL, fR, p) ==
  IF p >= Len(fL) THEN data
  ELSE StorePopulated(ScratchStore(ScratchStore(data, 0, p, fL[p + 1]), 1, p, fR[p + 1]),
                      fL, fR, p + 1)

\* push(scratch[0][i], scratch[1][i]) for i = from .. m-1
RECURSIVE pushScratch(_, _, _, _, _)
pushScratch(e, data, from, m, g) ==
  IF from >= m THEN e
  ELSE pushScratch(push(e, ScratchLoad(data, 0, from, g), ScratchLoad(data, 1, from, g)),
                   data, from + 1, m, g)

\* while (mResamplerUp->inputsRequiredToGenerateOutputs(outputLen) == 0)
LoopCondition ==
  inputsRequiredToGenerateOutputs(mResamplerUp[1], outputLen) = 0

ProcessBlockLancsoz(n, g) ==
  /\ CanProcess
  /\ mResamplingMode = kLancsoz
  /\ mResamplerUp' = <<pushBlock(mResamplerUp[1], HostBlock(n), 0, n)>>
  /\ mPushedCountUp' = mPushedCountUp + n
  /\ outputLen' = CeilDiv(n, mUpRatio)
  /\ stray' = g
  /\ pc' = "loop"
  /\ nFrames' = n
  /\ inputs' = HostBlock(n)
  /\ outputs' = HostOut(HostBlock(0), n)
  /\ funcCalls' = 0
  /\ funcLen' = -1
  /\ scratchHigh' = -1
  /\ oobRead' = FALSE
  /\ lastOp' = "ProcessBlock"
  /\ UNCHANGED <<mResamplingMode, mRenderingSampleRate, mInputSampleRate,
                 mUpRatio, mDownRatio, mResampledData, mScratchPtrs,
                 mResamplerDown, mPushedCountDown, host, blocks,
                 standalone, statics>>

LancsozLoop ==
  /\ pc = "loop"
  /\ LoopCondition
  /\ \E r \in {populateNext(mResamplerUp[1], outputLen)} :
     \E data2 \in {RunFunc(StorePopulated(mResampledData, r.fL, r.fR, 0),
                           func, 0, outputLen, stray)} :
       /\ mResamplerUp' = <<r.eng>>
       /\ mResampledData' = data2
       /\ mResamplerDown' = <<pushScratch(mResamplerDown[1], data2, 0, outputLen, stray)>>
       /\ scratchHigh' = Max(scratchHigh, r.populated - 1)
  /\ funcCalls' = Min(funcCalls + 1, MaxFuncCalls)
  /\ funcLen' = outputLen
  /\ UNCHANGED <<mResamplingMode, mRenderingSampleRate, mInputSampleRate,
                 mUpRatio, mDownRatio, mScratchPtrs, mPushedCountUp,
                 mPushedCountDown, pc, nFrames, inputs, outputs,
                 outputLen, stray, oobRead, host, blocks, lastOp,
                 standalone, statics>>

\* samples 1..Len(s) of a populateNext result as a block indexed from 0
AsBlock(fL, fR) ==
  [ch \in Chans |-> [k \in 0..(Len(fL) - 1) |-> IF ch = 0 THEN fL[k + 1] ELSE fR[k + 1]]]

LancsozDone ==
  /\ pc = "loop"
  /\ ~LoopCondition
  /\ \E r \in {populateNext(mResamplerDown[1], nFrames)} :
       /\ outputs' = HostOut(AsBlock(r.fL, r.fR), nFrames)
       /\ mResamplerDown' = <<renormalizePhases(r.eng)>>
  /\ mResamplerUp' = <<renormalizePhases(mResamplerUp[1])>>
  /\ pc' = "returned"
  /\ blocks' = blocks + 1
  /\ UNCHANGED <<mResamplingMode, mRenderingSampleRate, mInputSampleRate,
                 mUpRatio, mDownRatio, mResampledData, mScratchPtrs,
                 mPushedCountUp, mPushedCountDown, nFrames, inputs,
                 outputLen, stray, funcCalls, funcLen, scratchHigh, oobRead,
                 host, lastOp, standalone,
                 statics>>

(***************************************************************************)
(* LanczosResampler driven directly.  eng receives the calls the facade    *)
(* makes on an engine (push, populateNext, renormalizePhases, and          *)
(* inputsRequiredToGenerateOutputs followed by that many pushes); ref      *)
(* receives the same calls except renormalizePhases.                       *)
(***************************************************************************)
\* <<inputRate, outputRate>> of the engines the facade constructs
EngineRates ==
  {r \in InputRates \X InputRates : r[1] \in RenderRates \/ r[2] \in RenderRates}

\* pushes made before the first call observed: none, one short of a full
\* ring, and enough for wp to have wrapped
StartPushes == {0, BUFFER_SZ - 1, BUFFER_SZ + A + 2}

\* push(HostSample(0, k), HostSample(1, k)) for k = from .. from + n - 1
RECURSIVE pushRamp(_, _, _)
pushRamp(e, from, n) ==
  IF n = 0 \/ e.wp < 0 THEN e
  ELSE IF n = 1 THEN push(e, HostSample(0, from), HostSample(1, from))
  ELSE pushRamp(pushRamp(e, from, n \div 2), from + (n \div 2), n - (n \div 2))

\* what read() computes for output j = 0, 1, ... of a populateNext call on
\* e, n pushes after e's construction: read((phaseI - phaseO), ...) runs with
\* phaseO advanced j times.  pos is floor(p0) counted in pushes since
\* construction, before it is wrapped into the ring.
ReadAt(e, j, n) ==
  LET ej == [e EXCEPT !.phaseO = e.phaseO + j * e.sri]
  IN  [lookahead |-> ej.phaseI - ej.phaseO,
       pos |-> (n * e.sro - (ej.phaseI - ej.phaseO)) \div e.sro,
       idx0 |-> ReadIdx0(ej),
       tidx |-> ReadTidx(ej),
       fidx |-> (ReadOff0(ej) * tableObs) % e.sro]

Reads(e, populated, n) == [j \in 1..populated |-> ReadAt(e, j - 1, n)]

\* outputs[k] produced so far by populateNext calls: each advanced phaseO by
\* dPhaseO and left the rest of e alone
Drained(e, k) == [e EXCEPT !.phaseO = e.phaseO + k * e.sri]

\* the number of outputs e can produce less two
AllButTwo(e) ==
  LET spare == (e.phaseI - e.phaseO) - (A + 1) * e.sro
      avail == IF spare <= 0 THEN 0 ELSE (spare + e.sri - 1) \div e.sri
  IN  Max(avail - 2, 0)

\* engines at the start of the calls observed: after n pushes, with no
\* output taken yet (n = 0, or wp wrapped) or, one push short of a full
\* ring, with all outputs but two taken and phaseO not yet renormalized
StartEngine(e, n) ==
  IF n = BUFFER_SZ - 1 THEN Drained(e, AllButTwo(e)) ELSE e

EngineInit ==
  /\ Constructed
  /\ mResamplingMode = kLancsoz
  /\ func = "identity"
  /\ \E r \in EngineRates, n \in StartPushes :
       \E e \in {StartEngine(pushRamp(LanczosResampler(r[1], r[2]), 0, n), n)} :
         /\ eng = <<e>>
         /\ ref = <<e>>
         /\ pushed = n
  /\ op = [name |-> "LanczosResampler", calls |-> 0]
  /\ tablesInitialized = TRUE
  /\ tableBuilds = 1
  /\ lateWrite = FALSE
  /\ ctorPc = [t \in Threads |-> [k |-> 0, at |-> "none"]]

CanCallEngine == op.calls < MaxCalls

EnginePush ==
  /\ CanCallEngine
  /\ eng' = <<pushRamp(eng[1], pushed, 1)>>
  /\ ref' = <<pushRamp(ref[1], pushed, 1)>>
  /\ pushed' = pushed + 1
  /\ op' = [name |-> "push", calls |-> op.calls + 1]
  /\ UNCHANGED <<facade, frame, host, blocks, lastOp, statics>>

EnginePopulateNext(max) ==
  /\ CanCallEngine
  /\ \E r \in {populateNext(eng[1], max)}, q \in {populateNext(ref[1], max)} :
       /\ eng' = <<r.eng>>
       /\ ref' = <<q.eng>>
       /\ op' = [name |-> "populateNext", calls |-> op.calls + 1,
                 max |-> max, need |-> 0, refNeed |-> 0,
                 populated |-> r.populated, out |-> <<r.fL, r.fR>>,
                 reads |-> Reads(eng[1], r.populated, pushed),
                 refPopulated |-> q.populated, refOut |-> <<q.fL, q.fR>>,
                 refReads |-> Reads(ref[1], q.populated, pushed)]
  /\ UNCHANGED <<pushed, facade, frame, host, blocks, lastOp, statics>>

EngineRenormalizePhases ==
  /\ CanCallEngine
  /\ eng' = <<renormalizePhases(eng[1])>>
  /\ op' = [name |-> "renormalizePhases", calls |-> op.calls + 1]
  /\ UNCHANGED <<ref, pushed, facade, frame, host, blocks, lastOp, statics>>

\* the caller pushes inputsRequiredToGenerateOutputs(d) samples and then
\* asks for d outputs
EnginePushRequired(d) ==
  /\ CanCallEngine
  /\ \E k \in {inputsRequiredToGenerateOutputs(eng[1], d)},
        kr \in {inputsRequiredToGenerateOutputs(ref[1], d)} :
     \E e \in {pushRamp(eng[1], pushed, k)}, er \in {pushRamp(ref[1], pushed, kr)} :
     \E r \in {populateNext(e, d)}, q \in {populateNext(er, d)} :
       /\ eng' = <<r.eng>>
       /\ ref' = <<q.eng>>
       /\ pushed' = pushed + k
       /\ op' = [name |-> "inputsRequiredToGenerateOutputs", calls |-> op.calls + 1,
                 max |-> d, need |-> k, refNeed |-> kr,
                 populated |-> r.populated, out |-> <<r.fL, r.fR>>,
                 reads |-> Reads(e, r.populated, pushed + k),
                 refPopulated |-> q.populated, refOut |-> <<q.fL, q.fR>>,
                 refReads |-> Reads(er, q.populated, pushed + k)]
  /\ UNCHANGED <<facade, frame, host, blocks, lastOp, statics>>

EngineNext ==
  \/ EnginePush
  \/ \E max \in 0..MaxOutputs : EnginePopulateNext(max)
  \/ EngineRenormalizePhases
  \/ \E d \in 0..MaxOutputs : EnginePushRequired(d)

EngineSpec == EngineInit /\ [][EngineNext]_vars

(***************************************************************************)
(* The facade in kLancsoz mode over a wide range of input rates: one Reset *)
(* after construction, then ProcessBlock calls with 1 <= nFrames.          *)
(***************************************************************************)
\* input rates: the small ones, and one that is BUFFER_SZ / 2 times the
\* rendering rate
WideRates == InputRates \cup {(BUFFER_SZ \div 2) * r : r \in RenderRates}

WideInit == Constructed /\ mResamplingMode = kLancsoz /\ NoStandalone /\ ProcessStart

\* the Reset that precedes the first ProcessBlock
WideReset(r) == lastOp = "NonIntegerResampler" /\ Reset(r)

WideNext ==
  \/ \E r \in WideRates : WideReset(r)
  \/ \E n \in 1..MaxFrames, g \in Garbage : ProcessBlockLancsoz(n, g)
  \/ LancsozLoop
  \/ LancsozDone

WideSpec == WideInit /\ [][WideNext]_vars

(***************************************************************************)
(* LanczosResampler constructors running on several threads (one facade    *)
(* per thread, each Reset constructing engines one after the other).  The  *)
(* static tables and tablesInitialized are shared and accessed without     *)
(* synchronisation; a constructor is taken in steps: the test of the flag, *)
(* the three loops that write the tables, the store to the flag.           *)
(***************************************************************************)
ThreadsInit ==
  /\ Constructed
  /\ mResamplingMode = kLancsoz
  /\ func = "identity"
  /\ NoStandalone
  /\ ProcessStart

At(t, at) == ctorPc[t].at = at

Goto(t, at) == ctorPc' = [ctorPc EXCEPT ![t].at = at]

\* a store to a table entry
TableWrite == lateWrite' = (lateWrite \/ tablesInitialized)

\* the thread enters a constructor: member initialisers, phases, memset
CtorBegin(t) ==
  /\ ctorPc[t].at \in {"none", "constructed"}
  /\ ctorPc[t].k < MaxCtors
  /\ ctorPc' = [ctorPc EXCEPT ![t] = [k |-> ctorPc[t].k + 1, at |-> "test"]]
  /\ UNCHANGED <<tablesInitialized, tableBuilds, lateWrite>>
  /\ UNCHANGED <<facade, frame, host, blocks, lastOp, standalone>>

\* if (!tablesInitialized)
CtorTest(t) ==
  /\ At(t, "test")
  /\ Goto(t, IF tablesInitialized THEN "constructed" ELSE "lanczosTable")
  /\ UNCHANGED <<tablesInitialized, tableBuilds, lateWrite>>
  /\ UNCHANGED <<facade, frame, host, blocks, lastOp, standalone>>

\* lanczosTable[t][i] = kernel(x) for every row
CtorFillTable(t) ==
  /\ At(t, "lanczosTable")
  /\ Goto(t, "lanczosTableDX")
  /\ tableBuilds' = tableBuilds + 1
  /\ TableWrite
  /\ UNCHANGED tablesInitialized
  /\ UNCHANGED <<facade, frame, host, blocks, lastOp, standalone>>

\* lanczosTableDX[t][i] = lanczosTable[t + 1][i] - lanczosTable[t][i]
CtorFillTableDX(t) ==
  /\ At(t, "lanczosTableDX")
  /\ Goto(t, "wrap")
  /\ TableWrite
  /\ UNCHANGED <<tablesInitialized, tableBuilds>>
  /\ UNCHANGED <<facade, frame, host, blocks, lastOp, standalone>>

\* lanczosTableDX[tableObs][i] = lanczosTableDX[0][i]
CtorWrap(t) ==
  /\ At(t, "wrap")
  /\ Goto(t, "flag")
  /\ TableWrite
  /\ UNCHANGED <<tablesInitialized, tableBuilds>>
  /\ UNCHANGED <<facade, frame, host, blocks, lastOp, standalone>>

\* tablesInitialized = true
CtorSetFlag(t) ==
  /\ At(t, "flag")
  /\ Goto(t, "constructed")
  /\ tablesInitialized' = TRUE
  /\ UNCHANGED <<tableBuilds, lateWrite>>
  /\ UNCHANGED <<facade, frame, host, blocks, lastOp, standalone>>

ThreadsNext ==
  \E t \in Threads :
    \/ CtorBegin(t)
    \/ CtorTest(t)
    \/ CtorFillTable(t)
    \/ CtorFillTableDX(t)
    \/ CtorWrap(t)
    \/ CtorSetFlag(t)

ThreadsSpec == ThreadsInit /\ [][ThreadsNext]_vars

(***************************************************************************)
(* Specification                                                           *)
(***************************************************************************)
Next ==
  \/ \E r \in InputRates : Reset(r)
  \/ \E m \in ESRCMode : SetResamplingMode(m)
  \/ \E n \in 0..MaxFrames, g \in Garbage : ProcessBlockLinear(n, g)
  \/ \E n \in 0..MaxFrames, g \in Garbage : ProcessBlockCubic(n, g)
  \/ \E n \in 0..MaxFrames, g \in Garbage : ProcessBlockLancsoz(n, g)
  \/ LancsozLoop
  \/ LancsozDone

Spec == Init /\ [][Next]_vars

TypeOK ==
  /\ mResamplingMode \in ESRCMode
  /\ pc \in {"idle", "loop", "returned"}
  /\ Len(mResamplerUp) \in {0, 1}
  /\ Len(mResamplerDown) \in {0, 1}
  /\ funcCalls \in 0..MaxFuncCalls
  /\ blocks \in 0..MaxBlocks

(***************************************************************************)
(* Properties                                                              *)
(***************************************************************************)
Returned == pc = "returned"
Interpolating == mResamplingMode \in {kLinearInterpolation, kCubicInterpolation}

\* C1: every ProcessBlock call, in every mode and for every frame count,
\* invokes the transform exactly once.
C1_TransformExactlyOnce == Returned => funcCalls = 1

\* phaseI - phaseO of an engine, the quantity the pull loop's condition tests
Lookahead(e) == e.phaseI - e.phaseO

\* C2: after a reset with positive rates the pull loop of the kLancsoz case
\* exits after finitely many iterations, for every frame count n >= 0.  An
\* iteration is deterministic and its condition depends on the up-engine's
\* lookahead alone, so the loop exits exactly when every iteration consumes
\* lookahead; an iteration that leaves it as it was repeats forever.
C2_PullLoopConsumesLookahead ==
  [][LancsozLoop => Lookahead(mResamplerUp'[1]) < Lookahead(mResamplerUp[1])]_vars

\* C3: the frame count m handed to the transform is
\* min(ceil(n / upRatio), DEFAULT_BLOCK_SIZE) and no scratch index at or
\* beyond DEFAULT_BLOCK_SIZE is stored, in every mode.
C3_ScratchCapacityRespected ==
  (pc # "idle" /\ funcLen # -1) =>
     /\ funcLen = Min(CeilDiv(nFrames, mUpRatio), DEFAULT_BLOCK_SIZE)
     /\ scratchHigh < DEFAULT_BLOCK_SIZE

\* C4: when ProcessBlock returns, every index 0..n-1 of both output
\* channels has been assigned in that call.
C4_AllOutputsAssigned ==
  Returned => \A ch \in Chans : \A k \in 0..(nFrames - 1) : outputs[ch][k] # Stale

\* the facade is configured for kLancsoz and no ProcessBlock has run since
JustResetLancsoz ==
  pc = "idle" /\ mResamplingMode = kLancsoz /\ mInputSampleRate > 0

\* every history slot of e written so far holds silence
OnlySilence(e) == \A ch \in Chans : \A i \in DOMAIN e.input[ch] : e.input[ch][i] = Zero

\* C5: right after Reset / SetResamplingMode in kLancsoz mode with positive
\* rates the up-engine's lookahead phaseI - phaseO exceeds A + 1, everything
\* it was fed is silence, and the down-engine has phaseI = phaseO = 0.
C5_Primed ==
  JustResetLancsoz =>
     /\ Len(mResamplerUp) = 1 /\ Len(mResamplerDown) = 1
     /\ mResamplerUp[1].phaseI - mResamplerUp[1].phaseO > (A + 1) * mResamplerUp[1].sro
     /\ mResamplerUp[1].wp > 0
     /\ OnlySilence(mResamplerUp[1])
     /\ mResamplerDown[1].phaseI = 0 /\ mResamplerDown[1].phaseO = 0
     /\ mResamplerDown[1].wp = 0

\* a Reset in kLancsoz mode that follows earlier processing
C5_Witness == JustResetLancsoz /\ blocks > 0 /\ mInputSampleRate # mRenderingSampleRate

\* what SetResamplingMode(m) leaves behind, the ratios aside
SetModeEffect(m) ==
  /\ mRenderingSampleRate' = mRenderingSampleRate
  /\ mInputSampleRate' = mInputSampleRate
  /\ mResamplingMode' = m
  /\ DOMAIN mResampledData' = 0..(ScratchSize - 1)
  /\ \A j \in DOMAIN mResampledData' : mResampledData'[j] = Zero
  /\ m = kLancsoz =>
       /\ Len(mResamplerUp') = 1 /\ Len(mResamplerDown') = 1
       /\ mResamplerUp'[1].phaseO = 0
       /\ mResamplerUp'[1].phaseI = mResamplerUp'[1].wp * mResamplerUp'[1].sro
       /\ mResamplerUp'[1].wp > A + 1
       /\ Cardinality(DOMAIN mResamplerUp'[1].input[0]) = 2 * mResamplerUp'[1].wp
       /\ OnlySilence(mResamplerUp'[1])
       /\ mResamplerDown'[1].phaseI = 0 /\ mResamplerDown'[1].phaseO = 0
       /\ mResamplerDown'[1].wp = 0
       /\ DOMAIN mResamplerDown'[1].input[0] = {}

RatiosKept == mUpRatio' = mUpRatio /\ mDownRatio' = mDownRatio

\* C6 as stated: SetResamplingMode(m) is a mode change plus a full reset at
\* the configured input rate and leaves both ratios unchanged, whatever the
\* state before the call.
C6_SetModeKeepsRatiosAlways ==
  [][\A m \in ESRCMode : SetResamplingMode(m) => SetModeEffect(m) /\ RatiosKept]_vars

\* C6 amended: as above, the ratios being unchanged when a Reset or
\* SetResamplingMode has been performed before the call.
C6_SetModeIsFullReset ==
  [][\A m \in ESRCMode : SetResamplingMode(m) =>
        SetModeEffect(m) /\ (mScratchPtrs # <<>> => RatiosKept)]_vars

\* SetResamplingMode(kLancsoz) called after processing in another mode
C6_Witness ==
  /\ lastOp = "SetResamplingMode" /\ mResamplingMode = kLancsoz
  /\ blocks > 0 /\ mPushedCountUp = 0 /\ mInputSampleRate > 0

\* C7: at ratio 1 with the identity transform the Linear and Cubic modes
\* return the input block unchanged, for 1 <= n <= DEFAULT_BLOCK_SIZE.
C7_UnityRatioIsIdentity ==
  (/\ Returned /\ Interpolating /\ mUpRatio = <<1, 1>> /\ func = "identity"
   /\ nFrames >= 1 /\ nFrames <= DEFAULT_BLOCK_SIZE) => outputs = inputs

\* C8: the interpolators read inputs[chan][.] only inside 0..inputLen-1 and
\* store only below the returned output length.
C8_InterpolatorsStayInBounds ==
  (Returned /\ Interpolating) => (~oobRead /\ scratchHigh < funcLen)

RatioProductIsOne ==
  /\ mUpRatio[2] # 0 /\ mDownRatio[2] # 0
  /\ mUpRatio[1] * mDownRatio[1] = mUpRatio[2] * mDownRatio[2]

\* C9 as stated: upRatio * downRatio = 1 in every reachable state, from
\* construction onward.
C9_RatioProductAlways == RatioProductIsOne

\* C9 amended: upRatio * downRatio = 1 in every state in which the input
\* rate has been set by Reset.
C9_RatioProductAfterReset == mInputSampleRate > 0 => RatioProductIsOne

\* a block processed at a ratio other than 1, after a Reset
C9_Witness == Returned /\ mInputSampleRate > 0 /\ mUpRatio # <<1, 1>>

\* C10: an engine exists only while the mode is kLancsoz.
C10_EnginesOnlyInLancsoz ==
  (Len(mResamplerUp) = 1 \/ Len(mResamplerDown) = 1) => mResamplingMode = kLancsoz

\* the latest call on eng asked it for outputs
Pulled == op.name \in {"populateNext", "inputsRequiredToGenerateOutputs"}

\* C11: renormalizePhases leaves phaseO = 0 and changes neither
\* phaseI - phaseO nor wp nor the history, so an engine renormalized between
\* calls returns the same counts and reads the same history windows at the
\* same table offsets as one that receives the same calls and is never
\* renormalized.
C11_RenormalizedMatchesReference ==
  eng # <<>> =>
     /\ op.name = "renormalizePhases" => eng[1].phaseO = 0
     /\ Lookahead(eng[1]) = Lookahead(ref[1])
     /\ eng[1].wp = ref[1].wp
     /\ eng[1].input = ref[1].input
     /\ Pulled => /\ op.need = op.refNeed
                  /\ op.populated = op.refPopulated
                  /\ op.reads = op.refReads
                  /\ op.out = op.refOut

\* outputs were read by an engine whose phases differ from the reference's
C11_Witness ==
  /\ eng # <<>> /\ op.name = "populateNext" /\ op.populated > 0
  /\ eng[1].phaseI # ref[1].phaseI

\* C12: after inputsRequiredToGenerateOutputs(d) further pushes,
\* populateNext(max = d) produces exactly d outputs, for every d >= 0; when
\* the count is 0 it does so without a push.
C12_RequiredInputsSuffice ==
  op.name = "inputsRequiredToGenerateOutputs" => op.populated = op.max

\* pushes were needed, and were made, before the outputs asked for
C12_Witness ==
  /\ op.name = "inputsRequiredToGenerateOutputs"
  /\ op.need > 0 /\ op.max = MaxOutputs /\ eng[1].wp < A

\* C13: populateNext(max) returns p with 0 <= p <= max; each output is
\* produced with phaseI - phaseO > A + 1 just before it; on return p = max
\* or phaseI - phaseO <= A + 1; phaseO has advanced by p * dPhaseO, and
\* phaseI, wp and the history are as before.
C13_PopulateNextContract ==
  [][\A max \in 0..MaxOutputs : EnginePopulateNext(max) =>
       /\ op'.populated \in 0..max
       /\ \A j \in 1..op'.populated :
            op'.reads[j].lookahead > (A + 1) * eng[1].sro
       /\ op'.populated = max \/ Lookahead(eng'[1]) <= (A + 1) * eng[1].sro
       /\ eng'[1].phaseO = eng[1].phaseO + op'.populated * eng[1].sri
       /\ eng'[1].phaseI = eng[1].phaseI
       /\ eng'[1].wp = eng[1].wp
       /\ eng'[1].input = eng[1].input]_vars

\* a call that stopped for want of lookahead after producing an output
C13_Witness ==
  /\ op.name = "populateNext" /\ op.populated > 0 /\ op.populated < op.max

\* C14: at every moment of an engine's life, from its construction on,
\* input[ch][i] = input[ch][i + BUFFER_SZ] for both channels and every i in
\* 0..BUFFER_SZ-1, and wp is in 0..BUFFER_SZ-1 and is the number of pushes
\* modulo BUFFER_SZ.
C14_MirroredRing ==
  eng # <<>> =>
     /\ eng[1].wp \in 0..(BUFFER_SZ - 1)
     /\ eng[1].wp = pushed % BUFFER_SZ
     /\ \A ch \in Chans : \A i \in 0..(BUFFER_SZ - 1) :
          Slot(eng[1], ch, i) = Slot(eng[1], ch, i + BUFFER_SZ)

\* the reads of the latest call stay inside input[ch][0 .. 2 * BUFFER_SZ - 1]
\* and inside the kernel table, and address nothing at or after the write
\* position
ReadsInBounds ==
  \A j \in 1..op.populated :
     /\ op.reads[j].idx0 - A >= 0
     /\ op.reads[j].idx0 + A - 1 < 2 * BUFFER_SZ
     /\ op.reads[j].idx0 % BUFFER_SZ = op.reads[j].pos % BUFFER_SZ
     /\ op.reads[j].tidx \in 0..tableObs
     /\ op.reads[j].pos + A - 1 < pushed

\* C19 as stated: every read of populateNext addresses the 8 history
\* indices idx0 - A .. idx0 + A - 1 inside 0 .. 2 * BUFFER_SZ - 1, all behind
\* the write position and all of them positions already pushed, and a table
\* row in 0 .. tableObs.
C19_ReadsOnlyPushedPositions ==
  Pulled => /\ ReadsInBounds
            /\ \A j \in 1..op.populated : op.reads[j].pos - A >= 0

\* C19 amended: as above without "already pushed": the window may start
\* before the first push.
C19_ReadsInBounds == Pulled => ReadsInBounds

\* a window taken from the mirrored half at table row tableObs
C19_Witness ==
  /\ Pulled /\ pushed > BUFFER_SZ
  /\ \E j \in 1..op.populated :
       op.reads[j].idx0 >= BUFFER_SZ /\ op.reads[j].tidx = tableObs

\* a sample computed from a history slot that nothing has written: the slot
\* itself, or a kernel sum / transform result with such a slot among its taps
RECURSIVE HoldsUninit(_)
HoldsUninit(v) ==
  \/ v[1] = "uninit"
  \/ \E k \in DOMAIN v[4] : HoldsUninit(v[4][k])

\* C15: in kLancsoz mode, from the first ProcessBlock after Reset on, every
\* history slot read by populateNext in either engine and either channel
\* holds a pushed sample or the constructor's zero: no sample that
\* populateNext stored (in the scratch buffer by the up-engine, in the
\* host's outputs by the down-engine) is computed from a never-written slot
C15_ReadsOnlyDefinedSlots ==
  (mResamplingMode = kLancsoz /\ pc \in {"loop", "returned"}) =>
    /\ \A j \in DOMAIN mResampledData : ~HoldsUninit(mResampledData[j])
    /\ \A ch \in Chans : \A k \in DOMAIN outputs[ch] : ~HoldsUninit(outputs[ch][k])

\* output sample w of CubicInterpolate with the left tap taken from
\* inputs[chan][i - 1] whenever i - 1 >= 0, and 0 only for i = 0
CubicWithRealLeftTap(in, inputLen, ratio, w) ==
  LET i == ReadPosInt(ratio, w)
  IN  CubicPoly(ReadFrac(ratio, w),
                IF i - 1 >= 0 THEN in[i - 1] ELSE Zero,
                IF i < inputLen THEN in[i] ELSE in[i - 1],
                in[TapX1(i, inputLen)],
                in[TapX2(i, inputLen)])

\* C16: CubicInterpolate's left tap is the real sample inputs[chan][i - 1]
\* whenever i - 1 >= 0 and 0 only for i = 0: after a ProcessBlock in
\* kCubicInterpolation mode every sample the up-conversion assigned (seen
\* through the transform) and every sample the down-conversion assigned
\* is the Hermite polynomial on that tap
C16_CubicLeftTapIsRealSample ==
  (mResamplingMode = kCubicInterpolation /\ pc = "returned") =>
    /\ \A ch \in Chans :
         \A w \in Assigned(nFrames, mUpRatio, DEFAULT_BLOCK_SIZE) :
           ScratchLoad(mResampledData, ch, w, stray) =
             ApplyFunc(func, CubicWithRealLeftTap(WithBefore(inputs, nFrames, stray)[ch],
                                                  nFrames, mUpRatio, w))
    /\ \A ch \in Chans :
         \A w \in Assigned(funcLen, mDownRatio, nFrames) :
           outputs[ch][w] =
             CubicWithRealLeftTap(ScratchBlock(mResampledData, funcLen, stray)[ch],
                                  funcLen, mDownRatio, w)

\* ProcessBlock can run, or is running, its kLancsoz case
LancsozCaseRuns ==
  mResamplingMode = kLancsoz /\ (pc = "loop" \/ mInputSampleRate > 0)

\* C18: in every sequence of Reset, SetResamplingMode and ProcessBlock calls
\* with a Reset before the first ProcessBlock, whenever ProcessBlock runs
\* its kLancsoz case both mResamplerUp and mResamplerDown hold an engine,
\* also when the facade was constructed in kLancsoz mode or switched into
\* it by SetResamplingMode.
C18_EnginesExistWhenProcessing ==
  LancsozCaseRuns => (Len(mResamplerUp) = 1 /\ Len(mResamplerDown) = 1)

\* a second kLancsoz block is inside its pull loop, the mode having been
\* set by SetResamplingMode or the facade reset in between or before
C18_Witness ==
  /\ mResamplingMode = kLancsoz
  /\ pc = "loop"
  /\ blocks = 1
  /\ nFrames > 0
  /\ Len(mResamplerUp) = 1
  /\ Len(mResamplerDown) = 1

\* a populateNext call on e that performs a read (its loop condition holds)
\* reads with lookahead + A below the ring capacity
ReadsWithinRing(e) ==
  Lookahead(e) > (A + 1) * e.sro =>
    Lookahead(e) + A * e.sro < BUFFER_SZ * e.sro

\* C17: the facade keeps both engines' phases bounded within the ring: for
\* any positive input rate and any sequence of kLancsoz ProcessBlock calls
\* with 1 <= nFrames <= scratch capacity, phaseO = 0 in both engines after
\* each call, and whenever populateNext reads (the up-engine in an iteration
\* of the pull loop, the down-engine after it) lookahead + A < BUFFER_SZ, so
\* that no slot of the window was overwritten by push before it is read.
C17_PhasesBoundedWithinRing ==
  /\ (mResamplingMode = kLancsoz /\ pc = "returned") =>
       (mResamplerUp[1].phaseO = 0 /\ mResamplerDown[1].phaseO = 0)
  /\ (pc = "loop" /\ LoopCondition) => ReadsWithinRing(mResamplerUp[1])
  /\ (pc = "loop" /\ ~LoopCondition) => ReadsWithinRing(mResamplerDown[1])

\* C20: the kernel table is built exactly once per process and never
\* written afterwards: for every interleaving of engine constructions,
\* one after the other or at the same time on different threads, the
\* table-building writes are executed by one construction only, and no
\* table entry is written once tablesInitialized is true.
C20_TableBuiltOnce == tableBuilds <= 1 /\ ~lateWrite
====
